---- MODULE Spec2Model ----
(***************************************************************************)
(* State-machine model of the chat backend: the two websocket consumers    *)
(* (ChatConsumer, UserStatusConsumer) of chat/consumer.py, the ORM tables  *)
(* of chat/models.py and the HTTP views of chat/views.py that write them.  *)
(*                                                                         *)
(* Granularity: one action per awaited operation of a handler.  A consumer *)
(* runs its handlers one after the other (the next frame or channel-layer  *)
(* event is dispatched only when the previous handler returned), handlers  *)
(* of different consumers interleave at every await.                       *)
(***************************************************************************)
EXTENDS Integers, Sequences, FiniteSets, TLC

\* ---- bounds of the model ------------------------------------------------
NumSessions == 2
NumUsers == 2
MaxRooms == 2
MaxMessages == 2
MaxDisconnects == 2
MaxHttpCreates == 2
MaxClock == 2

Sessions == 1..NumSessions
Users == 1..NumUsers

\* scope.get('user', None): AuthMiddlewareStack (chat_project/asgi.py) always
\* puts a user in the scope, the AnonymousUser or an authenticated user;
\* NoUser is the attribute before connect has set it
NoUser == -1
AnonymousUser == 0
Identities == {AnonymousUser} \cup Users

\* a ChatRoom reference that is None
NoRoom == 0

username(u) == IF u = 1 THEN "alice" ELSE IF u = 2 THEN "bob" ELSE "carol"

\* the room keys a client may put in the URL
RoomKeys == {"general"}

\* the name of the captured URL group the router hands to the consumer:
\* chat/routing.py captures "room_id", ChatConsumer.connect reads "room_name"
RouteKwargs == {"room_id", "room_name"}

\* ---- text ----------------------------------------------------------------
\* Text is a sequence of characters; SP is the blank.
SP == " "
Hi == <<"h", "i">>
Blank == <<SP>>
Empty == <<>>
HiPadded == <<"h", "i", SP>>

RECURSIVE lstrip(_)
lstrip(t) == IF t # <<>> /\ Head(t) = SP THEN lstrip(Tail(t)) ELSE t

RECURSIVE rstrip(_)
rstrip(t) ==
    IF t # <<>> /\ t[Len(t)] = SP THEN rstrip(SubSeq(t, 1, Len(t) - 1)) ELSE t

\* str.strip(), as the serializer's CharField applies it (trim_whitespace)
strip(t) == rstrip(lstrip(t))

\* ---- frames a client can send --------------------------------------------
\* json.loads(text_data) of each frame: "error" is JSONDecodeError, "list" a
\* JSON value that is no object, "dict" an object; has = 'message' in data;
\* null = data['message'] is None; message = data['message'] when a string.
json_loads(text) ==
    CASE text = "not json" ->
            [kind |-> "error", has |-> FALSE, null |-> FALSE, message |-> Empty]
      [] text = "[1]" ->
            [kind |-> "list", has |-> FALSE, null |-> FALSE, message |-> Empty]
      [] text = "{}" ->
            [kind |-> "dict", has |-> FALSE, null |-> FALSE, message |-> Empty]
      [] text = "{\"message\": null}" ->
            [kind |-> "dict", has |-> TRUE, null |-> TRUE, message |-> Empty]
      [] text = "{\"message\": \"\"}" ->
            [kind |-> "dict", has |-> TRUE, null |-> FALSE, message |-> Empty]
      [] text = "{\"message\": \"hi\"}" ->
            [kind |-> "dict", has |-> TRUE, null |-> FALSE, message |-> Hi]

Frames ==
    {"not json", "[1]", "{}", "{\"message\": null}", "{\"message\": \"\"}",
     "{\"message\": \"hi\"}"}

\* the frame is the wire envelope {"message": <string>}
WellFormed(text) ==
    LET d == json_loads(text) IN d.kind = "dict" /\ d.has /\ ~d.null

\* ---- state ---------------------------------------------------------------
VARIABLES
    chatrooms,        \* ChatRoom rows: set of [id, names]
    chatroom_users,   \* ChatRoom.users rows: set of <<room id, user id>>
    messages,         \* Message rows in insertion order
    next_room_id,     \* the next ChatRoom primary key
    next_message_id,  \* the next Message primary key
    is_online,        \* CustomUser.is_online per user
    sess,             \* per consumer instance: its attributes and position
    groups,           \* channel layer: group name -> set of channels
    inbox,            \* channel layer: per channel, the events not yet handled
    sent,             \* per consumer: the frames pushed to its client
    published,        \* the group_send calls made so far, in order
    creating,         \* HTTP room creations between save() and users.add()
    http_creates,     \* number of HTTP room creations started
    stdout,           \* the line printed last
    clock,            \* timezone.now()
    last_seen,        \* CustomUser.last_seen per user
    saving,           \* HTTP message creations between pre_save and INSERT
    response          \* the HTTP response returned last

vars == <<chatrooms, chatroom_users, messages, next_room_id, next_message_id,
          is_online, sess, groups, inbox, sent, published, creating,
          http_creates, stdout, clock, last_seen, saving, response>>

db == <<chatrooms, chatroom_users, messages, next_room_id, next_message_id>>
layer == <<groups, inbox, published>>
http == <<creating, http_creates>>
rest == <<clock, last_seen, saving, response>>

\* f'chat_{room_name}'
room_group_name(key) == <<"chat", key>>
user_status_group == <<"user_status", "">>
GroupNames == {room_group_name(k) : k \in RoomKeys} \cup {user_status_group}
NoGroup == <<"", "">>

NewSession ==
    [kind |-> "none", pc |-> "new", user |-> NoUser, room_name |-> "",
     room_group_name |-> NoGroup, chat_room |-> NoRoom, saved |-> 0,
     message |-> Empty, disconnects |-> 0, last_seen |-> 0]

NoResponse == [status |-> 0, data |-> <<>>]

Init ==
    /\ chatrooms = {}
    /\ chatroom_users = {}
    /\ messages = <<>>
    /\ next_room_id = 1
    /\ next_message_id = 1
    /\ is_online = [u \in Users |-> FALSE]
    /\ sess = [s \in Sessions |-> NewSession]
    /\ groups = [g \in GroupNames |-> {}]
    /\ inbox = [s \in Sessions |-> <<>>]
    /\ sent = [s \in Sessions |-> <<>>]
    /\ published = <<>>
    /\ creating = {}
    /\ http_creates = 0
    /\ stdout = ""
    /\ clock = 0
    /\ last_seen = [u \in Users |-> 0]
    /\ saving = <<>>
    /\ response = NoResponse

\* user is None or user.is_anonymous
is_anonymous(u) == u = NoUser \/ u = AnonymousUser

\* ---- channel layer -------------------------------------------------------
\* channel_layer.group_add(group, channel)
group_add(g, s) == [groups EXCEPT ![g] = @ \cup {s}]

\* channel_layer.group_discard(group, channel); NoGroup names no group
group_discard(g, s) ==
    IF g \in GroupNames THEN [groups EXCEPT ![g] = @ \ {s}] ELSE groups

\* channel_layer.group_send(group, event): the event is queued, in one step,
\* on every channel that is in the group now; pub is its position in the
\* publish order
group_send(g, event) ==
    [s \in Sessions |->
        IF s \in groups[g]
        THEN Append(inbox[s], [event |-> event, pub |-> Len(published) + 1])
        ELSE inbox[s]]


\* ---- ORM -----------------------------------------------------------------
\* ChatRoom.objects.filter(names=room_name)
rooms_named(key) == {r \in chatrooms : r.names = key}

room_ids == {r.id : r \in chatrooms}

\* faulty variant of new_message: the read flag defaults to True
new_message_read(room, user, content) ==
    [id |-> next_message_id, chatroom |-> room, user |-> user,
     content |-> content, timestamp |-> clock, is_read |-> TRUE]

\* Message.objects.create(chatroom=..., user=..., content=...): is_read
\* takes its default
new_message(room, user, content) ==
    [id |-> next_message_id, chatroom |-> room, user |-> user,
     content |-> content, timestamp |-> clock, is_read |-> FALSE]

\* ---- ChatConsumer --------------------------------------------------------
\* connect, up to its first database query: the attributes, the
\* authentication check, and get_or_create's SELECT
connect(s, u, key, kw) ==
    /\ sess[s].pc = "new"
    /\ IF kw # "room_name"
       THEN \* scope['url_route']['kwargs']['room_name'] raises KeyError
            sess' = [sess EXCEPT ![s].kind = "chat", ![s].pc = "crashed"]
       ELSE IF is_anonymous(u)
       THEN sess' = [sess EXCEPT ![s].kind = "chat", ![s].user = u,
                        ![s].room_name = key,
                        ![s].room_group_name = room_group_name(key),
                        ![s].pc = "rejected"]
       ELSE LET found == rooms_named(key) IN
            sess' = [sess EXCEPT ![s].kind = "chat", ![s].user = u,
                        ![s].room_name = key,
                        ![s].room_group_name = room_group_name(key),
                        ![s].chat_room =
                            IF Cardinality(found) = 1
                            THEN (CHOOSE r \in found : TRUE).id ELSE NoRoom,
                        ![s].pc =
                            CASE Cardinality(found) = 0 -> "create"
                              [] Cardinality(found) = 1 -> "has_room_access"
                              [] OTHER -> "rejected"]
    \* get_or_create raises MultipleObjectsReturned: the except branch prints
    /\ stdout' = IF kw = "room_name" /\ ~is_anonymous(u)
                     /\ Cardinality(rooms_named(key)) > 1
                  THEN "Error getting/creating room" ELSE stdout
    /\ UNCHANGED <<db, is_online, layer, sent, http, rest>>

\* get_or_create found no room: it INSERTs one
get_or_create_room(s) ==
    /\ sess[s].kind = "chat" /\ sess[s].pc = "create"
    /\ next_room_id <= MaxRooms
    /\ chatrooms' = chatrooms \cup
            {[id |-> next_room_id, names |-> sess[s].room_name]}
    /\ next_room_id' = next_room_id + 1
    /\ sess' = [sess EXCEPT ![s].chat_room = next_room_id,
                            ![s].pc = "users_add"]
    /\ UNCHANGED <<chatroom_users, messages, next_message_id, is_online,
                   layer, sent, http>>
    /\ UNCHANGED <<stdout, rest>>

\* created: room.users.add(self.user)
room_users_add(s) ==
    /\ sess[s].kind = "chat" /\ sess[s].pc = "users_add"
    /\ chatroom_users' = chatroom_users \cup {<<sess[s].chat_room, sess[s].user>>}
    /\ sess' = [sess EXCEPT ![s].pc = "has_room_access"]
    /\ UNCHANGED <<chatrooms, messages, next_room_id, next_message_id,
                   is_online, layer, sent, http>>
    /\ UNCHANGED <<stdout, rest>>

\* faulty variant of has_room_access: the membership query is not made
has_room_access_unchecked(s) ==
    /\ sess[s].kind = "chat" /\ sess[s].pc = "has_room_access"
    /\ sess' = [sess EXCEPT ![s].pc = "group_add"]
    /\ UNCHANGED <<db, is_online, layer, sent, http>>
    /\ UNCHANGED <<stdout, rest>>

\* self.chat_room.users.filter(id=self.user.id).exists(); close() when false
has_room_access(s) ==
    /\ sess[s].kind = "chat" /\ sess[s].pc = "has_room_access"
    /\ sess' = [sess EXCEPT ![s].pc =
                    IF <<sess[s].chat_room, sess[s].user>> \in chatroom_users
                    THEN "group_add" ELSE "rejected"]
    /\ UNCHANGED <<db, is_online, layer, sent, http>>
    /\ UNCHANGED <<stdout, rest>>

\* faulty variant of connect_group_add: the channel is also added to the
\* presence group
connect_group_add_presence(s) ==
    /\ sess[s].kind = "chat" /\ sess[s].pc = "group_add"
    /\ groups' = [groups EXCEPT ![sess[s].room_group_name] = @ \cup {s},
                                ![user_status_group] = @ \cup {s}]
    /\ sess' = [sess EXCEPT ![s].pc = "accept"]
    /\ UNCHANGED <<db, is_online, inbox, published, sent, http>>
    /\ UNCHANGED <<stdout, rest>>

\* channel_layer.group_add(self.room_group_name, self.channel_name)
connect_group_add(s) ==
    /\ sess[s].kind = "chat" /\ sess[s].pc = "group_add"
    /\ groups' = group_add(sess[s].room_group_name, s)
    /\ sess' = [sess EXCEPT ![s].pc = "accept"]
    /\ UNCHANGED <<db, is_online, inbox, published, sent, http>>
    /\ UNCHANGED <<stdout, rest>>

\* self.accept()
accept(s) ==
    /\ sess[s].kind = "chat" /\ sess[s].pc = "accept"
    /\ sess' = [sess EXCEPT ![s].pc = "joined"]
    /\ UNCHANGED <<db, is_online, layer, sent, http>>
    /\ UNCHANGED <<stdout, rest>>

\* disconnect: group_discard; the consumer is gone afterwards, and so is its
\* channel.  The handler may be invoked again on a closed session.
disconnect(s) ==
    /\ sess[s].kind = "chat"
    /\ sess[s].pc \in {"joined", "rejected", "closed"}
    /\ sess[s].disconnects < MaxDisconnects
    /\ groups' = group_discard(sess[s].room_group_name, s)
    /\ inbox' = [inbox EXCEPT ![s] = <<>>]
    /\ sess' = [sess EXCEPT ![s].pc = "closed", ![s].disconnects = @ + 1]
    /\ UNCHANGED <<db, is_online, published, sent, http>>
    /\ UNCHANGED <<stdout, rest>>

\* faulty variant of save_message_fails: a failure of the database goes unnoticed and
\* receive carries on as if the row had been saved
save_message_fails_unnoticed(s, content_is_null, db_ok) ==
    \/ content_is_null
    \/ sess[s].chat_room \notin room_ids

\* Message.objects.create raises (and save_message returns None) when the
\* database fails, when content is None, or when the room row is gone
save_message_fails(s, content_is_null, db_ok) ==
    \/ ~db_ok
    \/ content_is_null
    \/ sess[s].chat_room \notin room_ids

\* faulty variant of drop: the except branch also closes the connection
drop_and_close(s, line) ==
    /\ stdout' = line
    /\ sess' = [sess EXCEPT ![s].pc = "rejected"]
    /\ UNCHANGED <<messages, next_message_id>>

\* an except branch of receive, or save_message's: the line is printed and
\* the frame is dropped
drop(s, line) ==
    /\ stdout' = line
    /\ UNCHANGED <<sess, messages, next_message_id>>

\* receive, up to the end of save_message
receive(s, text, db_ok) ==
    LET d == json_loads(text) IN
    /\ sess[s].kind = "chat" /\ sess[s].pc = "joined"
    /\ IF d.kind = "error" THEN drop(s, "Invalid JSON received")
       ELSE IF d.kind = "list" THEN drop(s, "Error processing message")
       ELSE IF ~d.has THEN drop(s, "Message key not found in data")
       ELSE IF save_message_fails(s, d.null, db_ok)
       THEN drop(s, "Error saving message")
       ELSE /\ next_message_id <= MaxMessages
            /\ messages' = Append(messages,
                    new_message(sess[s].chat_room, sess[s].user, d.message))
            /\ next_message_id' = next_message_id + 1
            /\ sess' = [sess EXCEPT ![s].pc = "group_send",
                                    ![s].saved = next_message_id,
                                    ![s].message = d.message]
            /\ UNCHANGED <<stdout, rest>>
    /\ UNCHANGED <<chatrooms, chatroom_users, next_room_id, is_online, layer,
                   sent, http, rest>>

\* the event receive hands to group_send
room_event(s) ==
    [type |-> "chat_message", message |-> sess[s].message,
     username |-> username(sess[s].user), user_id |-> sess[s].user]

\* receive, after save_message returned a row: group_send to the room group
receive_group_send(s) ==
    /\ sess[s].kind = "chat" /\ sess[s].pc = "group_send"
    /\ inbox' = group_send(sess[s].room_group_name, room_event(s))
    /\ published' = Append(published,
            [group |-> sess[s].room_group_name, event |-> room_event(s),
             mid |-> sess[s].saved])
    /\ sess' = [sess EXCEPT ![s].pc = "joined", ![s].saved = 0,
                            ![s].message = Empty]
    /\ UNCHANGED <<db, is_online, groups, sent, http>>
    /\ UNCHANGED <<stdout, rest>>

\* the frame chat_message sends for an event
chat_frame(event) ==
    [message |-> event.message, username |-> event.username,
     user_id |-> event.user_id]

\* faulty variant of chat_message: the newest queued event is handled first
chat_message_newest_first(s) ==
    /\ sess[s].kind = "chat" /\ sess[s].pc = "joined"
    /\ inbox[s] # <<>>
    /\ sent' = [sent EXCEPT ![s] =
            Append(@, [frame |-> chat_frame(inbox[s][Len(inbox[s])].event),
                       pub |-> inbox[s][Len(inbox[s])].pub])]
    /\ inbox' = [inbox EXCEPT ![s] = SubSeq(@, 1, Len(@) - 1)]
    /\ UNCHANGED <<db, is_online, sess, groups, published, http>>
    /\ UNCHANGED <<stdout, rest>>

\* chat_message: the handler of the oldest queued event pushes it to the client
chat_message(s) ==
    /\ sess[s].kind = "chat" /\ sess[s].pc = "joined"
    /\ inbox[s] # <<>>
    /\ Head(inbox[s]).event.type = "chat_message"
    /\ sent' = [sent EXCEPT ![s] =
            Append(@, [frame |-> chat_frame(Head(inbox[s]).event),
                       pub |-> Head(inbox[s]).pub])]
    /\ inbox' = [inbox EXCEPT ![s] = Tail(@)]
    /\ UNCHANGED <<db, is_online, sess, groups, published, http>>
    /\ UNCHANGED <<stdout, rest>>


\* ---- UserStatusConsumer --------------------------------------------------
\* update_user_status(status): self.user.is_online = status; self.user.save()
update_user_status(u, status) == [is_online EXCEPT ![u] = status]

\* the presence event; status is 'online' on connect and False on
\* disconnect (written "False" here)
status_event(u, status) ==
    [type |-> "user_status", user_id |-> u, status |-> status]

\* the last_seen that user.save(update_fields=['is_online', 'last_seen'])
\* writes: the one of the consumer's user instance, which is the time of the
\* save when the user goes offline
saved_last_seen(s, status) == IF status THEN sess[s].last_seen ELSE clock

\* connect, up to group_add('user_status', ...); scope['user'] is the user
\* row as the middleware loaded it when the connection was opened
status_connect(s, u) ==
    /\ sess[s].pc = "new"
    /\ IF is_anonymous(u)
       THEN /\ sess' = [sess EXCEPT ![s].kind = "status", ![s].user = u,
                                    ![s].pc = "rejected"]
            /\ UNCHANGED groups
       ELSE /\ groups' = group_add(user_status_group, s)
            /\ sess' = [sess EXCEPT ![s].kind = "status", ![s].user = u,
                                    ![s].last_seen = last_seen[u],
                                    ![s].pc = "set_online"]
    /\ UNCHANGED <<db, is_online, inbox, published, sent, http>>
    /\ UNCHANGED <<stdout, rest>>

\* connect: update_user_status(True)
status_set_online(s) ==
    /\ sess[s].kind = "status" /\ sess[s].pc = "set_online"
    /\ is_online' = update_user_status(sess[s].user, TRUE)
    /\ last_seen' = [last_seen EXCEPT ![sess[s].user] = saved_last_seen(s, TRUE)]
    /\ sess' = [sess EXCEPT ![s].pc = "send_online"]
    /\ UNCHANGED <<db, layer, sent, http>>
    /\ UNCHANGED <<stdout, clock, saving, response>>

\* connect: group_send of the online event
status_send_online(s) ==
    /\ sess[s].kind = "status" /\ sess[s].pc = "send_online"
    /\ inbox' = group_send(user_status_group, status_event(sess[s].user, "online"))
    /\ published' = Append(published,
            [group |-> user_status_group,
             event |-> status_event(sess[s].user, "online"), mid |-> 0])
    /\ sess' = [sess EXCEPT ![s].pc = "accept"]
    /\ UNCHANGED <<db, is_online, groups, sent, http>>
    /\ UNCHANGED <<stdout, rest>>

\* connect: self.accept()
status_accept(s) ==
    /\ sess[s].kind = "status" /\ sess[s].pc = "accept"
    /\ sess' = [sess EXCEPT ![s].pc = "joined"]
    /\ UNCHANGED <<db, is_online, layer, sent, http>>
    /\ UNCHANGED <<stdout, rest>>

\* disconnect, up to its first awaited call: update_user_status(False) for
\* an authenticated user, group_discard (its last) otherwise
status_disconnect(s) ==
    /\ sess[s].kind = "status"
    /\ sess[s].pc \in {"joined", "rejected", "closed"}
    /\ sess[s].disconnects < MaxDisconnects
    /\ IF ~is_anonymous(sess[s].user)
       THEN /\ is_online' = update_user_status(sess[s].user, FALSE)
            /\ last_seen' = [last_seen EXCEPT
                                ![sess[s].user] = saved_last_seen(s, FALSE)]
            /\ sess' = [sess EXCEPT ![s].pc = "send_offline",
                                    ![s].last_seen = saved_last_seen(s, FALSE),
                                    ![s].disconnects = @ + 1]
            /\ UNCHANGED <<groups, inbox>>
       ELSE /\ groups' = group_discard(user_status_group, s)
            /\ inbox' = [inbox EXCEPT ![s] = <<>>]
            /\ sess' = [sess EXCEPT ![s].pc = "closed",
                                    ![s].disconnects = @ + 1]
            /\ UNCHANGED <<is_online, last_seen>>
    /\ UNCHANGED <<db, published, sent, http>>
    /\ UNCHANGED <<stdout, clock, saving, response>>

\* faulty variant of status_send_offline: no offline event is published
status_send_offline_silent(s) ==
    /\ sess[s].kind = "status" /\ sess[s].pc = "send_offline"
    /\ sess' = [sess EXCEPT ![s].pc = "group_discard"]
    /\ UNCHANGED <<db, is_online, layer, sent, http>>
    /\ UNCHANGED <<stdout, rest>>

\* disconnect: group_send of the offline event
status_send_offline(s) ==
    /\ sess[s].kind = "status" /\ sess[s].pc = "send_offline"
    /\ inbox' = group_send(user_status_group, status_event(sess[s].user, "False"))
    /\ published' = Append(published,
            [group |-> user_status_group,
             event |-> status_event(sess[s].user, "False"), mid |-> 0])
    /\ sess' = [sess EXCEPT ![s].pc = "group_discard"]
    /\ UNCHANGED <<db, is_online, groups, sent, http>>
    /\ UNCHANGED <<stdout, rest>>

\* faulty variant of status_group_discard: the channel is left in the group
status_group_discard_skipped(s) ==
    /\ sess[s].kind = "status" /\ sess[s].pc = "group_discard"
    /\ inbox' = [inbox EXCEPT ![s] = <<>>]
    /\ sess' = [sess EXCEPT ![s].pc = "closed"]
    /\ UNCHANGED <<db, is_online, groups, published, sent, http>>
    /\ UNCHANGED <<stdout, rest>>

\* disconnect: group_discard('user_status', ...)
status_group_discard(s) ==
    /\ sess[s].kind = "status" /\ sess[s].pc = "group_discard"
    /\ groups' = group_discard(user_status_group, s)
    /\ inbox' = [inbox EXCEPT ![s] = <<>>]
    /\ sess' = [sess EXCEPT ![s].pc = "closed"]
    /\ UNCHANGED <<db, is_online, published, sent, http>>
    /\ UNCHANGED <<stdout, rest>>

\* the frame user_status sends for an event
status_frame(event) ==
    [type |-> "user_status", user_id |-> event.user_id, status |-> event.status]

\* user_status: the handler of the oldest queued presence event
user_status(s) ==
    /\ sess[s].kind = "status" /\ sess[s].pc = "joined"
    /\ inbox[s] # <<>>
    /\ Head(inbox[s]).event.type = "user_status"
    /\ sent' = [sent EXCEPT ![s] =
            Append(@, [frame |-> status_frame(Head(inbox[s]).event),
                       pub |-> Head(inbox[s]).pub])]
    /\ inbox' = [inbox EXCEPT ![s] = Tail(@)]
    /\ UNCHANGED <<db, is_online, sess, groups, published, http>>
    /\ UNCHANGED <<stdout, rest>>

\* ---- HTTP views ----------------------------------------------------------
\* ChatRoomListCreateView.create: serializer.save() inserts the room
room_create(u, names, user_ids) ==
    /\ http_creates < MaxHttpCreates
    /\ next_room_id <= MaxRooms
    /\ chatrooms' = chatrooms \cup {[id |-> next_room_id, names |-> names]}
    /\ next_room_id' = next_room_id + 1
    /\ creating' = creating \cup
            {[room |-> next_room_id, users |-> user_ids \cup {u}]}
    /\ http_creates' = http_creates + 1
    /\ UNCHANGED <<chatroom_users, messages, next_message_id, is_online, sess,
                   layer, sent>>
    /\ UNCHANGED <<stdout, rest>>

\* ChatRoomListCreateView.perform_create: chat_room.users.add(*users)
room_perform_create(c) ==
    /\ c \in creating
    /\ chatroom_users' = chatroom_users \cup {<<c.room, u>> : u \in c.users}
    /\ creating' = creating \ {c}
    /\ UNCHANGED <<chatrooms, messages, next_room_id, next_message_id,
                   is_online, sess, layer, sent, http_creates>>
    /\ UNCHANGED <<stdout, rest>>

\* ChatRoomDetailView DELETE: the room is looked up by id among the rooms of
\* the requester; its membership rows and (on_delete=CASCADE) its messages
\* go with it.  404 otherwise.
room_destroy(u, id) ==
    /\ id \in room_ids
    /\ <<id, u>> \in chatroom_users
    /\ chatrooms' = {r \in chatrooms : r.id # id}
    /\ chatroom_users' = {m \in chatroom_users : m[1] # id}
    /\ messages' = SelectSeq(messages, LAMBDA m : m.chatroom # id)
    /\ UNCHANGED <<next_room_id, next_message_id, is_online, sess, layer,
                   sent, http>>
    /\ UNCHANGED <<stdout, rest>>

\* faulty variant of message_create: the requester need not be a user of
\* the room
message_create_by_anyone(u, chatroom_id, content) ==
    /\ next_message_id + Len(saving) <= MaxMessages
    /\ IF chatroom_id \notin room_ids
       THEN /\ response' = [status |-> 404, data |-> <<>>]
            /\ UNCHANGED saving
       ELSE IF strip(content) = Empty
       THEN /\ response' = [status |-> 400, data |-> <<>>]
            /\ UNCHANGED saving
       ELSE /\ saving' = Append(saving,
                    [chatroom |-> chatroom_id, user |-> u,
                     content |-> strip(content), timestamp |-> clock])
            /\ UNCHANGED response
    /\ UNCHANGED <<db, is_online, sess, layer, sent, http, stdout, clock,
                   last_seen>>

\* the row an INSERT of a pending creation adds: the timestamp is the one
\* pre_save took, the primary key the one the database hands out now
pending_row(p) ==
    [new_message(p.chatroom, p.user, p.content) EXCEPT !.timestamp = p.timestamp]

\* MessageListCreateView.create, up to the INSERT: 404 unless the room exists
\* and the requester is one of its users; the serializer strips the content
\* and rejects it (400) when nothing is left; perform_create's save() has
\* pre_save take timezone.now() for the timestamp
message_create(u, chatroom_id, content) ==
    /\ next_message_id + Len(saving) <= MaxMessages
    /\ IF ~(chatroom_id \in room_ids /\ <<chatroom_id, u>> \in chatroom_users)
       THEN /\ response' = [status |-> 404, data |-> <<>>]
            /\ UNCHANGED saving
       ELSE IF strip(content) = Empty
       THEN /\ response' = [status |-> 400, data |-> <<>>]
            /\ UNCHANGED saving
       ELSE /\ saving' = Append(saving,
                    [chatroom |-> chatroom_id, user |-> u,
                     content |-> strip(content), timestamp |-> clock])
            /\ UNCHANGED response
    /\ UNCHANGED <<db, is_online, sess, layer, sent, http, stdout, clock,
                   last_seen>>

\* the INSERT of a pending creation and its 201 response; the INSERT fails
\* (IntegrityError, 500) when the room has been deleted meanwhile
message_insert(i) ==
    /\ i \in DOMAIN saving
    /\ IF saving[i].chatroom \in room_ids
       THEN /\ messages' = Append(messages, pending_row(saving[i]))
            /\ next_message_id' = next_message_id + 1
            /\ response' = [status |-> 201, data |-> <<pending_row(saving[i])>>]
       ELSE /\ response' = [status |-> 500, data |-> <<>>]
            /\ UNCHANGED <<messages, next_message_id>>
    /\ saving' = [k \in 1..(Len(saving) - 1) |->
                    IF k < i THEN saving[k] ELSE saving[k + 1]]
    /\ UNCHANGED <<chatrooms, chatroom_users, next_room_id, is_online, sess,
                   layer, sent, http, stdout, clock, last_seen>>

\* [:50]
ListLimit == 50

\* the rows of Message.objects.filter(chatroom_id=chatroom_id)
room_rows(chatroom_id) ==
    {messages[i] : i \in {k \in DOMAIN messages :
                            messages[k].chatroom = chatroom_id}}

\* order_by('-timestamp'): the orders the database may return the rows in,
\* rows of equal timestamp in any order
newest_first(rows) ==
    {q \in [1..Cardinality(rows) -> rows] :
        \A i, j \in 1..Cardinality(rows) :
            i < j => q[i] # q[j] /\ q[i].timestamp >= q[j].timestamp}

\* MessageListCreateView.get_queryset and the list response
message_list(u, chatroom_id) ==
    /\ \E q \in newest_first(room_rows(chatroom_id)) :
            response' = [status |-> 200,
                         data |-> SubSeq(q, 1, IF Len(q) < ListLimit
                                               THEN Len(q) ELSE ListLimit)]
    /\ UNCHANGED <<db, is_online, sess, layer, sent, http, stdout, clock,
                   last_seen, saving>>

\* the rows that come first under Meta.ordering = ['timestamp']; which of
\* several rows of equal timestamp does is up to the database
oldest(rows) ==
    {m \in rows : \A n \in rows : m.timestamp <= n.timestamp}

\* ChatRoomSerializer.get_last_message: obj.messages.first(), or None (the
\* empty sequence) when the room has no message
get_last_message(id) ==
    IF room_rows(id) = {} THEN {<<>>}
    ELSE {<<m>> : m \in oldest(room_rows(id))}

\* ChatRoomDetailView GET: the room is looked up by id among the rooms of
\* the requester (404 otherwise) and serialized with its last_message
room_retrieve(u, id) ==
    /\ IF id \in room_ids /\ <<id, u>> \in chatroom_users
       THEN \E last_message \in get_last_message(id) :
                response' = [status |-> 200, data |-> last_message]
       ELSE response' = [status |-> 404, data |-> <<>>]
    /\ UNCHANGED <<db, is_online, sess, layer, sent, http, stdout, clock,
                   last_seen, saving>>

\* the name under which chat/urls.py hands the captured path segment to the
\* view: it captures "room_name", post() takes "chatroom_id"
ViewKwargs == {"room_name", "chatroom_id"}

\* faulty variant of mark_read: only the oldest matching row is updated
mark_read_one_row(u, kw, chatroom_id) ==
    /\ IF kw # "chatroom_id"
       THEN /\ response' = [status |-> 500, data |-> <<>>]
            /\ UNCHANGED messages
       ELSE /\ messages' = [i \in DOMAIN messages |->
                    IF /\ messages[i].chatroom = chatroom_id
                       /\ messages[i].user # u
                       /\ ~messages[i].is_read
                       /\ \A k \in 1..(i - 1) :
                            ~(/\ messages[k].chatroom = chatroom_id
                              /\ messages[k].user # u
                              /\ ~messages[k].is_read)
                    THEN [messages[i] EXCEPT !.is_read = TRUE]
                    ELSE messages[i]]
            /\ response' = [status |-> 200, data |-> <<>>]
    /\ UNCHANGED <<chatrooms, chatroom_users, next_room_id, next_message_id,
                   is_online, sess, layer, sent, http, stdout, clock,
                   last_seen, saving>>

\* faulty variant of mark_read: the messages of the requester are marked too
mark_read_own_too(u, kw, chatroom_id) ==
    /\ IF kw # "chatroom_id"
       THEN /\ response' = [status |-> 500, data |-> <<>>]
            /\ UNCHANGED messages
       ELSE /\ messages' = [i \in DOMAIN messages |->
                    IF messages[i].chatroom = chatroom_id
                    THEN [messages[i] EXCEPT !.is_read = TRUE]
                    ELSE messages[i]]
            /\ response' = [status |-> 200, data |-> <<>>]
    /\ UNCHANGED <<chatrooms, chatroom_users, next_room_id, next_message_id,
                   is_online, sess, layer, sent, http, stdout, clock,
                   last_seen, saving>>

\* MarkMessagesAsRead.post: one UPDATE of the unread rows of the room that
\* users other than the requester wrote
mark_read(u, kw, chatroom_id) ==
    /\ IF kw # "chatroom_id"
       THEN \* post() got an unexpected keyword argument
            /\ response' = [status |-> 500, data |-> <<>>]
            /\ UNCHANGED messages
       ELSE /\ messages' = [i \in DOMAIN messages |->
                    IF /\ messages[i].chatroom = chatroom_id
                       /\ messages[i].user # u
                       /\ ~messages[i].is_read
                    THEN [messages[i] EXCEPT !.is_read = TRUE]
                    ELSE messages[i]]
            /\ response' = [status |-> 200, data |-> <<>>]
    /\ UNCHANGED <<chatrooms, chatroom_users, next_room_id, next_message_id,
                   is_online, sess, layer, sent, http, stdout, clock,
                   last_seen, saving>>

HttpContents == {Empty, Blank, Hi, HiPadded}

\* ---- time ---------------------------------------------------------------
\* the clock that timezone.now() reads moves on
tick ==
    /\ clock < MaxClock
    /\ clock' = clock + 1
    /\ UNCHANGED <<db, is_online, sess, layer, sent, http, stdout, last_seen,
                   saving, response>>

\* ---- specifications -----------------------------------------------------
\* Consumer instances are numbered in the order in which they connect.
next_session(s) == \A x \in Sessions : x < s => sess[x].pc # "new"

\* the frames of the wire envelope with a non-empty message
GoodFrames == {"{\"message\": \"hi\"}"}

\* The steps of ChatConsumer.connect after its first, and its event handler.
ChatSteps ==
    \/ \E s \in Sessions : get_or_create_room(s)
    \/ \E s \in Sessions : room_users_add(s)
    \/ \E s \in Sessions : has_room_access(s)
    \/ \E s \in Sessions : connect_group_add(s)
    \/ \E s \in Sessions : accept(s)
    \/ \E s \in Sessions : receive_group_send(s)
    \/ \E s \in Sessions : chat_message(s)

\* The steps of UserStatusConsumer after the first of connect and disconnect.
StatusSteps ==
    \/ \E s \in Sessions : status_set_online(s)
    \/ \E s \in Sessions : status_send_online(s)
    \/ \E s \in Sessions : status_accept(s)
    \/ \E s \in Sessions : status_send_offline(s)
    \/ \E s \in Sessions : status_group_discard(s)
    \/ \E s \in Sessions : user_status(s)

\* Messaging: room sessions of every identity, every frame, and a database
\* that may fail.
Next ==
    \/ \E s \in Sessions, u \in Identities, key \in RoomKeys, kw \in RouteKwargs :
            next_session(s) /\ connect(s, u, key, kw)
    \/ ChatSteps
    \/ \E s \in Sessions : sess[s].pc # "closed" /\ disconnect(s)
    \/ \E s \in Sessions, text \in Frames, db_ok \in BOOLEAN :
            receive(s, text, db_ok)

Spec == Init /\ [][Next]_vars

\* Rooms: room sessions together with the HTTP operations that create and
\* delete rooms; the frames are well-formed and the database is up.
NextRooms ==
    \/ \E s \in Sessions, u \in Identities, key \in RoomKeys, kw \in RouteKwargs :
            next_session(s) /\ connect(s, u, key, kw)
    \/ ChatSteps
    \/ \E s \in Sessions : sess[s].pc # "closed" /\ disconnect(s)
    \/ \E s \in Sessions, text \in GoodFrames : receive(s, text, TRUE)
    \/ \E u \in Users, names \in RoomKeys, user_ids \in SUBSET Users :
            room_create(u, names, user_ids)
    \/ \E c \in creating : room_perform_create(c)
    \/ \E u \in Users, id \in 1..MaxRooms : room_destroy(u, id)

SpecRooms == Init /\ [][NextRooms]_vars

\* Lifecycle: room sessions and presence sessions, with disconnect invoked
\* up to MaxDisconnects times on a session.
NextLife ==
    \/ \E s \in Sessions, u \in Identities, key \in RoomKeys :
            next_session(s) /\ connect(s, u, key, "room_name")
    \/ ChatSteps
    \/ \E s \in Sessions : disconnect(s)
    \/ \E s \in Sessions, text \in GoodFrames : receive(s, text, TRUE)
    \/ \E s \in Sessions, u \in Identities :
            next_session(s) /\ status_connect(s, u)
    \/ \E s \in Sessions : status_disconnect(s)
    \/ StatusSteps

SpecLife == Init /\ [][NextLife]_vars

\* The event loop resumes a handler once the call it awaits has returned:
\* a disconnect that has started is not left waiting for ever.
SpecLifeFair ==
    /\ SpecLife
    /\ \A s \in Sessions :
            /\ WF_vars(status_send_offline(s))
            /\ WF_vars(status_group_discard(s))


\* Presence: presence sessions, with disconnect invoked up to MaxDisconnects
\* times on a session, while time passes.
NextPresence ==
    \/ \E s \in Sessions, u \in Identities :
            next_session(s) /\ status_connect(s, u)
    \/ \E s \in Sessions : status_disconnect(s)
    \/ StatusSteps
    \/ tick

SpecPresence == Init /\ [][NextPresence]_vars

\* History: the HTTP operations on rooms and on the messages of a room,
\* while time passes.
NextHistory ==
    \/ \E u \in Users, names \in RoomKeys, user_ids \in SUBSET Users :
            room_create(u, names, user_ids)
    \/ \E c \in creating : room_perform_create(c)
    \/ \E u \in Users, id \in 1..MaxRooms : room_destroy(u, id)
    \/ \E u \in Users, id \in 0..MaxRooms, content \in HttpContents :
            message_create(u, id, content)
    \/ \E i \in DOMAIN saving : message_insert(i)
    \/ \E u \in Users, id \in 0..MaxRooms : message_list(u, id)
    \/ \E u \in Users, id \in 0..MaxRooms : room_retrieve(u, id)
    \/ \E u \in Users, kw \in ViewKwargs, id \in 0..MaxRooms :
            mark_read(u, kw, id)
    \/ tick

SpecHistory == Init /\ [][NextHistory]_vars

\* Delivery: room sessions of authenticated users next to the HTTP
\* message-create operation.
NextDelivery ==
    \/ \E s \in Sessions, u \in Users, key \in RoomKeys :
            next_session(s) /\ connect(s, u, key, "room_name")
    \/ ChatSteps
    \/ \E s \in Sessions : sess[s].pc # "closed" /\ disconnect(s)
    \/ \E s \in Sessions, text \in GoodFrames : receive(s, text, TRUE)
    \/ \E u \in Users, id \in 1..MaxRooms : message_create(u, id, Hi)
    \/ \E i \in DOMAIN saving : message_insert(i)

SpecDelivery == Init /\ [][NextDelivery]_vars

\* ---- C1: admission to a room ---------------------------------------------
\* a room session that passed the access check of connect
Admitted(s) ==
    /\ sess[s].kind = "chat"
    /\ sess[s].pc \in {"group_add", "accept", "joined", "group_send"}

in_some_group(s) == \E g \in GroupNames : s \in groups[g]

C1_Inv ==
    \A s \in Sessions :
        /\ in_some_group(s) =>
                /\ Admitted(s) /\ sess[s].pc # "group_add"
                /\ ~is_anonymous(sess[s].user)
                /\ \A g \in GroupNames :
                        s \in groups[g] => g = sess[s].room_group_name
        /\ sess[s].pc \in {"rejected", "crashed"} =>
                /\ inbox[s] = <<>>
                /\ sent[s] = <<>>

C1_Step ==
    \A s \in Sessions :
        \* the check is passed only by an authenticated member of the room
        \* that the room key resolved to
        /\ Admitted(s)' /\ ~Admitted(s) =>
                /\ sess[s].pc = "has_room_access"
                /\ ~is_anonymous(sess[s].user)
                /\ [id |-> sess[s].chat_room, names |-> sess[s].room_name]
                        \in chatrooms
                /\ <<sess[s].chat_room, sess[s].user>> \in chatroom_users
        \* every other connect ends with the transport closed
        /\ sess[s].kind = "chat" /\ sess[s].pc = "has_room_access"
              /\ sess'[s] # sess[s]
              /\ <<sess[s].chat_room, sess[s].user>> \notin chatroom_users
              => sess'[s].pc = "rejected"
        /\ sess[s].pc = "new" /\ sess'[s].kind = "chat"
              /\ is_anonymous(sess'[s].user)
              => sess'[s].pc \in {"rejected", "crashed"}
        \* only an admitted session is subscribed or handed an event
        /\ in_some_group(s)' /\ ~in_some_group(s) => Admitted(s)
        /\ Len(inbox'[s]) > Len(inbox[s]) => Admitted(s)
        /\ sent'[s] # sent[s] => Admitted(s)

\* C1: a room session is accepted and added to the channel group of its room
\* only if its user is authenticated and, when connect checks it, a member
\* of the room the room key resolved to; every other connect ends with the
\* transport closed, and such a session is in no group and is handed no event.
C1_AdmissionOnlyForMembers == []C1_Inv /\ [][C1_Step]_vars

\* one session was admitted and has been sent a room message while another,
\* of an authenticated user who is no member of the room, was turned away
C1_Witness ==
    \E s, t \in Sessions :
        /\ sess[s].pc = "joined" /\ sent[s] # <<>>
        /\ sess[t].kind = "chat" /\ sess[t].pc = "rejected"
        /\ sess[t].user \in Users
        /\ sess[t].chat_room = sess[s].chat_room
        /\ <<sess[t].chat_room, sess[t].user>> \notin chatroom_users

\* ---- C10: one room per key -----------------------------------------------
\* C10: at most one room exists under a room key, whatever the interleaving
\* of the connects and HTTP room creations that use the key.
C10_OneRoomPerKey ==
    \A key \in RoomKeys : Cardinality(rooms_named(key)) <= 1


\* ---- C11: a room always has members --------------------------------------
\* the users of a room
room_members(id) == {u \in Users : <<id, u>> \in chatroom_users}

\* C11: every existing room has a member, so that no operation (the access
\* check of a connect among them) finds a created room without members.
C11_RoomHasMembers ==
    /\ \A r \in chatrooms : room_members(r.id) # {}
    /\ \A s \in Sessions :
            sess[s].pc = "has_room_access" /\ sess[s].chat_room \in room_ids
                => room_members(sess[s].chat_room) # {}

\* ---- C2: publish order and persistence order -----------------------------
is_room_publish(p) == p.event.type = "chat_message"

\* the stored rows with that primary key (one, or none once deleted)
rows_with_id(mid) ==
    {messages[i] : i \in {k \in DOMAIN messages : messages[k].id = mid}}

\* C2: the messages of one room are published on the room's channel in the
\* order in which they were persisted (the order of their primary keys).
C2_PublishOrderIsPersistOrder ==
    \A i, j \in DOMAIN published :
        /\ i < j
        /\ is_room_publish(published[i]) /\ is_room_publish(published[j])
        /\ published[i].group = published[j].group
        => \A a \in rows_with_id(published[i].mid),
              b \in rows_with_id(published[j].mid) :
                a.chatroom = b.chatroom => a.id < b.id

C4_Inv ==
    /\ \A k \in DOMAIN published :
          is_room_publish(published[k]) =>
            /\ published[k].mid \in 1..(next_message_id - 1)
            /\ \A i \in DOMAIN messages :
                messages[i].id = published[k].mid =>
                /\ messages[i].content = published[k].event.message
                /\ messages[i].user = published[k].event.user_id
                /\ username(messages[i].user) = published[k].event.username
                /\ \E r \in chatrooms :
                        /\ r.id = messages[i].chatroom
                        /\ published[k].group = room_group_name(r.names)
    /\ \A k, l \in DOMAIN published :
          /\ is_room_publish(published[k]) /\ is_room_publish(published[l])
          /\ published[k].mid = published[l].mid
          => k = l

C4_Step ==
    \A s \in Sessions :
      \* the row: the session's room and user, the frame's message, unread
      /\ \A text \in Frames :
            /\ WellFormed(text)
            /\ sess[s].chat_room \in room_ids
            /\ receive(s, text, TRUE)
            => /\ messages' = Append(messages,
                    [id |-> next_message_id, chatroom |-> sess[s].chat_room,
                     user |-> sess[s].user,
                     content |-> json_loads(text).message,
                     timestamp |-> clock, is_read |-> FALSE])
               /\ sess'[s].message = json_loads(text).message
               /\ sess'[s].pc = "group_send"
               /\ UNCHANGED <<inbox, published, sent>>
      \* the event: queued once for every session in the room's group, the
      \* sender included, and for no other session
      /\ sess[s].pc = "group_send" /\ sess'[s].pc # "group_send" =>
            LET e == [type |-> "chat_message", message |-> sess[s].message,
                      username |-> username(sess[s].user),
                      user_id |-> sess[s].user]
                g == room_group_name(sess[s].room_name)
            IN  /\ published' = Append(published,
                        [group |-> g, event |-> e, mid |-> sess[s].saved])
                /\ \A t \in Sessions :
                      inbox'[t] =
                        IF t \in groups[g]
                        THEN Append(inbox[t],
                                [event |-> e, pub |-> Len(published) + 1])
                        ELSE inbox[t]
                /\ messages' = messages
      \* the frame: message, username and user id of the queued event
      /\ sent'[s] # sent[s] =>
            /\ inbox[s] # <<>>
            /\ inbox'[s] = Tail(inbox[s])
            /\ sent'[s] = Append(sent[s],
                    [frame |-> [message |-> Head(inbox[s]).event.message,
                                username |-> Head(inbox[s]).event.username,
                                user_id |-> Head(inbox[s]).event.user_id],
                     pub |-> Head(inbox[s]).pub])

\* C4: a well-formed frame received by a joined session whose save succeeds
\* adds exactly one row (the session's room and user, the frame's message,
\* unread), and exactly one event with the message, the author's username
\* and id is queued for every session in the room's group, the sender
\* included, and for no other session; each is sent that event as a frame.
C4_OneRowOneEvent == []C4_Inv /\ [][C4_Step]_vars

\* a message of one session was stored and was sent to its author and to
\* the session of another member of the room
C4_Witness ==
    \E s, t \in Sessions :
        /\ s # t
        /\ sess[s].user # sess[t].user
        /\ sess[s].chat_room = sess[t].chat_room
        /\ messages # <<>>
        /\ messages[1].user = sess[s].user
        /\ messages[1].chatroom = sess[s].chat_room
        /\ messages[1].content = Hi
        /\ sent[s] # <<>> /\ sent[t] # <<>>
        /\ sent[s][1].frame =
                [message |-> Hi, username |-> username(sess[s].user),
                 user_id |-> sess[s].user]
        /\ sent[t][1].frame = sent[s][1].frame

\* ---- C5: a malformed frame is dropped ------------------------------------
ParseErrorLines ==
    {"Invalid JSON received", "Error processing message",
     "Message key not found in data"}

\* the frame cannot be parsed, or has no message field
Malformed(text) ==
    LET d == json_loads(text) IN d.kind # "dict" \/ ~d.has

C5_Step ==
    \A s \in Sessions :
      /\ sess[s].pc = "joined" /\ (stdout' # stdout \/ sess'[s] # sess[s]) =>
            \A text \in Frames, db_ok \in BOOLEAN :
                Malformed(text) /\ receive(s, text, db_ok) =>
                    /\ UNCHANGED <<db, is_online, sess, groups, inbox, sent,
                                   published>>
                    /\ stdout' \in ParseErrorLines
      \* a well-formed frame, also one that follows a drop, is stored and
      \* goes on to be published
      /\ sess[s].pc = "joined" /\ sess'[s] # sess[s] =>
            \A text \in Frames :
                /\ WellFormed(text)
                /\ sess[s].chat_room \in room_ids
                /\ receive(s, text, TRUE)
                => /\ Len(messages') = Len(messages) + 1
                   /\ messages'[Len(messages')].content =
                            json_loads(text).message
                   /\ sess'[s].pc = "group_send"
      /\ sess[s].pc = "group_send" /\ sess'[s] # sess[s]
            => /\ sess'[s].pc = "joined"
               /\ Len(published') = Len(published) + 1
               /\ published'[Len(published')].mid = sess[s].saved
               /\ s \in groups[sess[s].room_group_name] =>
                        Len(inbox'[s]) = Len(inbox[s]) + 1

\* C5: a frame that cannot be parsed or lacks the message field persists
\* nothing, publishes nothing and leaves the session joined and subscribed;
\* a later well-formed frame of the session is stored and published.
C5_MalformedIsDropped == [][C5_Step]_vars

\* the only session there is dropped a frame that was no JSON and has since
\* stored a well-formed one, which it is about to publish
C5_Witness ==
    \E s \in Sessions :
        /\ stdout = "Invalid JSON received"
        /\ sess[s].pc = "group_send"
        /\ s \in groups[sess[s].room_group_name]
        /\ \A t \in Sessions \ {s} : sess[t].pc = "new"

\* ---- C6: a failed save is dropped ----------------------------------------
C6_Step ==
    \A s \in Sessions :
        sess[s].pc = "joined" /\ (stdout' # stdout \/ sess'[s] # sess[s]) =>
            \A text \in Frames, db_ok \in BOOLEAN :
                /\ ~Malformed(text)
                /\ ~db_ok \/ json_loads(text).null
                        \/ sess[s].chat_room \notin room_ids
                /\ receive(s, text, db_ok)
                => /\ UNCHANGED <<db, is_online, sess, groups, inbox, sent,
                                  published>>
                   /\ stdout' = "Error saving message"

\* C6: when the save of a received message fails, the store is unchanged,
\* nothing is published or sent, and the session stays joined and
\* subscribed.
C6_FailedSaveIsDropped == [][C6_Step]_vars

\* the only session there is is joined and subscribed after a failed save
C6_Witness ==
    \E s \in Sessions :
        /\ stdout = "Error saving message"
        /\ sess[s].pc = "joined"
        /\ s \in groups[sess[s].room_group_name]
        /\ \A t \in Sessions \ {s} : sess[t].pc = "new"

\* ---- C7: no empty content ------------------------------------------------
\* C7: every stored message has content that is not blank.
C7_NoBlankContent ==
    \A i \in DOMAIN messages : strip(messages[i].content) # Empty


\* ---- C8: disconnect twice ------------------------------------------------
\* the first disconnect of the session has returned
Disconnected(s) ==
    /\ sess[s].disconnects >= 1
    /\ sess[s].pc = "closed" \/ sess[s].disconnects >= 2

C8_Step ==
    \A s \in Sessions :
        Disconnected(s) /\ sess'[s] # sess[s] =>
            /\ groups' = groups
            /\ is_online' = is_online
            /\ published' = published
            /\ sess'[s].pc \in {"closed", "send_offline", "group_discard"}

\* C8: disconnect is idempotent: every step of a disconnect invoked on a
\* session again, after its first disconnect returned, leaves the group
\* memberships, the online flags and the published events as they were, and
\* the session ends closed.
C8_DisconnectIdempotent == [][C8_Step]_vars

\* ---- C9: disconnect unsubscribes -----------------------------------------
C9_Inv ==
    \A s \in Sessions :
        Disconnected(s) => ~in_some_group(s) /\ inbox[s] = <<>>

C9_Step ==
    \A s \in Sessions :
        Disconnected(s) => sent'[s] = sent[s] /\ inbox'[s] = <<>>

\* a disconnect of the session is under way
Disconnecting(s) == sess[s].pc \in {"send_offline", "group_discard"}

C12_TimestampsFollowInsertion ==
    \A i, j \in DOMAIN messages :
        i < j /\ messages[i].chatroom = messages[j].chatroom
            => messages[i].timestamp <= messages[j].timestamp

\* ---- C13: listing a room's messages --------------------------------------
C13_Step ==
    \A u \in Users, id \in 0..MaxRooms :
        message_list(u, id) =>
            LET q == response'.data
                listed == {q[i] : i \in DOMAIN q}
            IN  /\ Len(q) <= ListLimit
                /\ listed \subseteq room_rows(id)
                /\ Cardinality(listed) = Len(q)
                /\ Len(q) < ListLimit => listed = room_rows(id)
                /\ \A r \in room_rows(id) \ listed, i \in DOMAIN q :
                        r.timestamp <= q[i].timestamp
                /\ \A i, j \in DOMAIN q :
                        i < j => q[i].timestamp <= q[j].timestamp

\* C13: listing the messages of a room returns at most ListLimit rows, the
\* most recent ones of the room, in ascending order of timestamp.
C13_ListIsChronological == [][C13_Step]_vars

\* ---- C14: one online and one offline event per connection ----------------
\* the presence events session t has been handed or has queued, in order
presence_seen(t) ==
    LET q == sent[t] \o inbox[t] IN
    [i \in DOMAIN q |-> published[q[i].pub].event]

\* the statuses of the events about user u among them
statuses_seen(t, u) ==
    LET q == SelectSeq(presence_seen(t), LAMBDA e : e.user_id = u) IN
    [i \in DOMAIN q |-> q[i].status]

\* s is the only presence session that user u has opened, and it has been
\* closed at most once
sole_session(s, u) ==
    /\ sess[s].kind = "status" /\ sess[s].user = u
    /\ sess[s].disconnects <= 1
    /\ \A x \in Sessions \ {s} : sess[x].user # u

\* C14: when a user opens a presence connection and later closes it (one
\* connection, closed once), every session subscribed to the presence
\* channel from before the open observes one online event for the user and
\* then, after the close, one offline event; the user's online flag is true
\* while the connection is open and false once it is closed.
C14_OnlineThenOffline ==
    \A s \in Sessions, u \in Users :
        sole_session(s, u) =>
            /\ sess[s].pc = "joined" => is_online[u]
            /\ sess[s].pc = "closed" => ~is_online[u]
            /\ \A t \in Sessions :
                /\ t < s /\ sess[t].kind = "status"
                /\ t \in groups[user_status_group]
                => /\ sess[s].pc \in {"accept", "joined"}
                        => statuses_seen(t, u) = <<"online">>
                   /\ sess[s].pc = "closed"
                        => statuses_seen(t, u) = <<"online", "False">>

\* a session of user 2 has been sent the online and then the offline event
\* of the connection that user 1 opened and closed
C14_Witness ==
    \E s, t \in Sessions :
        /\ t < s
        /\ sess[t].kind = "status" /\ sess[t].pc = "joined"
        /\ sess[t].user = 2
        /\ sole_session(s, 1) /\ sess[s].pc = "closed"
        /\ Len(sent[t]) >= 2
        /\ sent[t][Len(sent[t]) - 1].frame =
                [type |-> "user_status", user_id |-> 1, status |-> "online"]
        /\ sent[t][Len(sent[t])].frame =
                [type |-> "user_status", user_id |-> 1, status |-> "False"]
        /\ ~is_online[1]

\* ---- C15: last-seen ------------------------------------------------------
C15_Step ==
    /\ \A s \in Sessions :
        \* a connect leaves last-seen as it is
        /\ status_set_online(s) => last_seen' = last_seen
        \* a disconnect records its time
        /\ status_disconnect(s) /\ ~is_anonymous(sess[s].user)
                => last_seen'[sess[s].user] = clock
    \* and nothing else changes it
    /\ \A u \in Users :
        last_seen'[u] # last_seen[u] =>
            \E s \in Sessions : sess[s].user = u /\ status_disconnect(s)

\* C15: last-seen changes only when a user goes offline: a presence connect
\* leaves it unchanged and a presence disconnect sets it to the time of the
\* disconnect.
C15_LastSeenOnlyOnOffline == [][C15_Step]_vars

\* ---- C16: a room session and the presence channel ------------------------
\* C16: a room session that connect has accepted is subscribed to the channel
\* of its room and to the global presence channel.
C16_RoomSessionHearsPresence ==
    \A s \in Sessions :
        sess[s].kind = "chat" /\ sess[s].pc \in {"joined", "group_send"} =>
            /\ s \in groups[sess[s].room_group_name]
            /\ s \in groups[user_status_group]

\* a room session or a presence session whose connect has subscribed it
Subscribed(s) ==
    \/ sess[s].kind = "chat" /\ sess[s].pc \in {"accept", "joined", "group_send"}
    \/ sess[s].kind = "status"
            /\ sess[s].pc \in {"set_online", "send_online", "accept", "joined"}

\* the group the connect of a session subscribes it to
home_group(s) ==
    IF sess[s].kind = "chat" THEN sess[s].room_group_name ELSE user_status_group

\* C16 as amended: a successful connect to a room subscribes the session to
\* the channel of its room, and to no other, before it is acknowledged, and
\* a presence connect subscribes it to the global presence channel, and to
\* no other; so a joined room session is handed the messages of its room
\* and only a presence session is handed presence events.
C16_OneChannelPerConnection ==
    \A s \in Sessions :
        /\ Subscribed(s) =>
                \A g \in GroupNames : s \in groups[g] <=> g = home_group(s)
        /\ \A i \in DOMAIN inbox[s] :
                inbox[s][i].event.type =
                    IF sess[s].kind = "chat" THEN "chat_message"
                    ELSE "user_status"
        /\ \A i \in DOMAIN sent[s] :
                published[sent[s][i].pub].group = home_group(s)

\* a joined room session has been sent a message of its room, and a presence
\* session has been sent a presence event
C16_Witness ==
    \E s, t \in Sessions :
        /\ sess[s].kind = "chat" /\ sess[s].pc = "joined"
        /\ sent[s] # <<>>
        /\ sess[t].kind = "status" /\ sess[t].pc = "joined"
        /\ sent[t] # <<>>

\* ---- C17: what markRead changes ------------------------------------------
\* the rows markRead(chatroom_id, u) is about: unread, of the room, written
\* by another user
to_mark(u, chatroom_id) ==
    {i \in DOMAIN messages :
        /\ messages[i].chatroom = chatroom_id
        /\ messages[i].user # u
        /\ ~messages[i].is_read}

C17_Step ==
    \A u \in Users, id \in 0..MaxRooms :
        mark_read(u, "chatroom_id", id) =>
            /\ DOMAIN messages' = DOMAIN messages
            /\ \A i \in DOMAIN messages :
                /\ messages'[i].is_read =
                        (messages[i].is_read \/ i \in to_mark(u, id))
                /\ messages'[i].id = messages[i].id
                /\ messages'[i].chatroom = messages[i].chatroom
                /\ messages'[i].user = messages[i].user
                /\ messages'[i].content = messages[i].content
                /\ messages'[i].timestamp = messages[i].timestamp
            /\ UNCHANGED <<chatrooms, chatroom_users, saving>>

\* C17: markRead(room, requester) sets the read flag of exactly the unread
\* messages of the room that the requester did not write; the requester's
\* own messages, the messages of other rooms, and the content, author, room
\* and timestamp of every message stay as they were.
C17_MarkReadFrame == [][C17_Step]_vars

\* after a markRead, a room holds a read message of one user next to an
\* unread message of another, the requester
C17_Witness ==
    /\ response.status = 200
    /\ \E i, j \in DOMAIN messages :
        /\ messages[i].chatroom = messages[j].chatroom
        /\ messages[i].user # messages[j].user
        /\ messages[i].is_read /\ ~messages[j].is_read

\* ---- C18: markRead twice -------------------------------------------------
C18_Step ==
    \A u \in Users, id \in 0..MaxRooms :
        mark_read(u, "chatroom_id", id) =>
            \* nothing is left for a second call
            /\ \A i \in DOMAIN messages' :
                    ~(/\ messages'[i].chatroom = id
                      /\ messages'[i].user # u
                      /\ ~messages'[i].is_read)
            \* and a call that finds nothing changes nothing and succeeds
            /\ to_mark(u, id) = {} => UNCHANGED <<db, saving>>
            /\ response'.status = 200

\* C18: markRead is idempotent: after a markRead no row matches a second
\* markRead of the same room by the same requester, and a markRead that
\* matches no row leaves the store as it is and is not an error.
C18_MarkReadIdempotent == [][C18_Step]_vars

\* after a markRead, every message of a room is a read message that the one
\* other user wrote
C18_Witness ==
    /\ response.status = 200
    /\ Len(messages) = 2
    /\ \A i \in DOMAIN messages :
        /\ messages[i].is_read
        /\ messages[i].chatroom = messages[1].chatroom
        /\ messages[i].user = messages[1].user

\* ---- C19: HTTP message creation ------------------------------------------
C19_Step ==
    /\ \A u \in Users, id \in 0..MaxRooms, content \in HttpContents :
        message_create(u, id, content) =>
            IF id \in room_ids /\ u \in room_members(id)
            THEN /\ messages' = messages
                 /\ strip(content) # Empty =>
                        /\ Len(saving') = Len(saving) + 1
                        /\ saving'[Len(saving')].user = u
                        /\ saving'[Len(saving')].chatroom = id
                        /\ saving'[Len(saving')].content = strip(content)
            ELSE /\ response'.status = 404
                 /\ UNCHANGED <<db, saving>>
    /\ \A i \in DOMAIN saving :
        message_insert(i) /\ saving[i].chatroom \in room_ids =>
            /\ Len(messages') = Len(messages) + 1
            /\ SubSeq(messages', 1, Len(messages)) = messages
            /\ messages'[Len(messages')].user = saving[i].user
            /\ messages'[Len(messages')].chatroom = saving[i].chatroom
            /\ messages'[Len(messages')].content = saving[i].content
            /\ response'.status = 201
            /\ Len(saving') = Len(saving) - 1

\* C19: an HTTP message creation by a member of the room (with content that
\* is not blank, the room still there when the row is inserted) persists
\* exactly one message, of the requester, in that room; when the room does
\* not exist or the requester is not a member, it returns 404 and the
\* store is unchanged.
C19_CreateOnlyByMembers == [][C19_Step]_vars

\* a member's message has been persisted, and a request for a room of which
\* the requester is no member was answered 404
C19_Witness ==
    /\ response.status = 404
    /\ saving = <<>>
    /\ \E i \in DOMAIN messages, u \in Users :
        /\ messages[i].user \in room_members(messages[i].chatroom)
        /\ u \notin room_members(messages[i].chatroom)

\* ---- C20: online while a session is open ---------------------------------
\* the presence events published about user u, in order
presence_published(u) ==
    SelectSeq(published,
              LAMBDA p : p.event.type = "user_status" /\ p.event.user_id = u)

\* C20: while a user has an open (accepted, not yet disconnected) presence
\* session, the user's online flag is true and the last presence event
\* published about the user is online.
C20_OnlineWhileOpen ==
    \A s \in Sessions :
        sess[s].kind = "status" /\ sess[s].pc = "joined" =>
            LET p == presence_published(sess[s].user) IN
            /\ is_online[sess[s].user]
            /\ p # <<>> /\ p[Len(p)].event.status = "online"

\* ---- C21: the subscribers of a room key are members of its room ----------
\* C21: a session subscribed to the channel group of a room key is a member
\* of the room that now exists under that key, whatever connects, deletions
\* and re-creations of the room went before.
C21_SubscribersAreMembers ==
    \A s \in Sessions, key \in RoomKeys :
        /\ s \in groups[room_group_name(key)]
        /\ Cardinality(rooms_named(key)) = 1
        => \A r \in rooms_named(key) : sess[s].user \in room_members(r.id)

\* ---- C22: only members reach a room's messages ---------------------------
C22_Step ==
    \A u \in Users, id \in 1..MaxRooms :
        u \notin room_members(id) =>
            \* listing returns nothing of the room
            /\ message_list(u, id) => response'.data = <<>>
            \* markRead changes no read flag
            /\ mark_read(u, "chatroom_id", id) => messages' = messages
            \* creation persists nothing
            /\ \A content \in HttpContents :
                    message_create(u, id, content) => UNCHANGED <<db, saving>>

\* C22: an operation on the messages of a room takes effect only for a
\* member of the room: to a user who is no member, listing returns nothing
\* of the room, markRead changes no read flag and creation persists nothing.
C22_OnlyMembers == [][C22_Step]_vars

\* ---- C23: every persisted message is published ---------------------------
\* the number of room events published for the row with primary key mid
times_published(mid) ==
    Cardinality({k \in DOMAIN published :
                    is_room_publish(published[k]) /\ published[k].mid = mid})

\* a receive has saved the row and has yet to publish it
publish_pending(mid) ==
    \E s \in Sessions : sess[s].pc = "group_send" /\ sess[s].saved = mid

\* C23: every message persisted in a room, through a session's receive or
\* through the HTTP message-create operation, is published once on the
\* room's channel: once the operation that persisted it has returned it has
\* been published, exactly once.
C23_PersistedIsPublished ==
    \A i \in DOMAIN messages :
        /\ times_published(messages[i].id) <= 1
        /\ times_published(messages[i].id) = 1
                \/ publish_pending(messages[i].id)

\* ---- C24: the last message of a room -------------------------------------
C24_Step ==
    \A u \in Users, id \in 1..MaxRooms :
        room_retrieve(u, id) /\ id \in room_ids /\ u \in room_members(id) =>
            LET last_message == response'.data IN
            /\ last_message = <<>> <=> room_rows(id) = {}
            /\ last_message # <<>> =>
                /\ last_message[1] \in room_rows(id)
                /\ \A n \in room_rows(id) :
                        n.timestamp <= last_message[1].timestamp

\* C24: the last_message reported for a room is the message of the room
\* with the greatest timestamp, and is absent exactly when the room has no
\* messages.
C24_LastMessageIsNewest == [][C24_Step]_vars

====
